---- MODULE Spec2Model ----
(***************************************************************************)
(* Model of the sub-graph sampling pipeline (src/data/dataset.py) and of   *)
(* the LinkProp baseline (src/run_link_prop.py): its sparse-matrix         *)
(* helpers, sample_user_items, LinkPropMulti and mean_average_precision.   *)
(*                                                                         *)
(* Tensors of ids are sequences of integers.  A call that raises is a      *)
(* result record whose err field names the exception.                      *)
(***************************************************************************)
EXTENDS Integers, Sequences, FiniteSets, TLC

VARIABLES
    pc,          \* position of the component being exercised
    neg_call,    \* get_negative_edges_random: arguments and result
    remap_call,  \* remap_edges_to_start_from_zero: arguments and result
    sp_m,        \* the sparse matrix held by the caller of the sparse helpers
    sp_call,     \* the last sparse helper call: arguments and result
    sp_expect,   \* the dense reading the assigns made so far should give
    ds,          \* the GraphDataset object: graph, adjacency lists, config
    idx,         \* the anchor user of the __getitem__ call
    item,        \* the result of the __getitem__ call and its locals
    hop,         \* fetch_n_hop_neighbourhood: arguments and loop state
    lp,          \* run_link_prop.py: the module-level M and the estimator
    map_call     \* mean_average_precision: arguments and result

samplerVars == <<neg_call>>
remapVars == <<remap_call>>
sparseVars == <<sp_m, sp_call, sp_expect>>
datasetVars == <<ds, idx, item>>
nhopVars == <<hop>>
linkVars == <<lp, map_call>>

vars == <<pc, samplerVars, remapVars, sparseVars, datasetVars, nhopVars,
          linkVars>>

(***************************************************************************)
(* Bounds of the model.                                                    *)
(***************************************************************************)
MaxId == 2
MaxUserId == 1
MaxNeg == 2
MaxFilterLen == 2
MaxEdgeLen == 2
MaxRows == 2
MaxCols == 2
MaxVal == 1
MaxNnz == 2
MaxK == 2
MaxNegRatio == 2
MaxHops == 2
MaxFanOut == 2
MaxLinks == 3

(***************************************************************************)
(* Program constants.                                                      *)
(***************************************************************************)
RatioThreshold == 100

\* predict_k subtracts this from the score of every observed link.
SuppressConstant == 100000

\* score_mapk(X, y, batch_size=400).
DefaultBatchSize == 400

NotCalled == [err |-> "not_called", val |-> <<>>]
Ok(v) == [err |-> "none", val |-> v]
Raise(e) == [err |-> e, val |-> <<>>]

(***************************************************************************)
(* Tensor helpers (torch semantics).                                       *)
(***************************************************************************)
Range(s) == {s[i] : i \in DOMAIN s}

SetMin(S) == CHOOSE m \in S : \A x \in S : m <= x

SetMax(S) == CHOOSE m \in S : \A x \in S : x <= m

Min2(a, b) == IF a <= b THEN a ELSE b

Max2(a, b) == IF a >= b THEN a ELSE b

\* The float32 nearest to a number, numbers being integers that count a
\* power-of-two unit.  A float32 holds 24 significant bits: a number below
\* 2^24 in absolute value is kept, a larger one keeps its 24 leading bits,
\* rounded to the nearest, a tie going to the even one.  Float32Shift is the
\* number of bits that do not fit.
RECURSIVE Float32Shift(_)
Float32Shift(x) == IF x < 2 ^ 24 THEN 0 ELSE 1 + Float32Shift(x \div 2)

float32(x) ==
    LET size == IF x >= 0 THEN x ELSE 0 - x
        unit == 2 ^ Float32Shift(size)
        kept == size \div unit
        rest == size % unit
        nearest == IF 2 * rest > unit \/ (2 * rest = unit /\ kept % 2 = 1)
                   THEN (kept + 1) * unit
                   ELSE kept * unit
    IN  IF x >= 0 THEN nearest ELSE 0 - nearest

RECURSIVE SortedSeq(_)
SortedSeq(S) ==
    IF S = {} THEN <<>>
    ELSE LET m == SetMin(S) IN <<m>> \o SortedSeq(S \ {m})

Count(s, v) == Cardinality({i \in DOMAIN s : s[i] = v})

\* Tensor.unique(): the distinct values, ascending.
unique(s) == SortedSeq(Range(s))

\* t.arange(start, end): start, start+1, ..., end-1.
arange(start, end) == [i \in 1..Max2(end - start, 0) |-> start + i - 1]

\* Python slice s[:n], negative n counted from the end.
SliceTo(s, n) ==
    IF n >= 0 THEN SubSeq(s, 1, Min2(n, Len(s)))
    ELSE SubSeq(s, 1, Max2(Len(s) + n, 0))

\* s[index] for an index tensor (0-based positions).
IndexBy(s, index) == [i \in DOMAIN index |-> s[index[i] + 1]]

\* t.randperm(n): every permutation of 0..n-1.
randperm(n) ==
    {p \in [1..n -> 0..(n - 1)] : \A i, j \in 1..n : i # j => p[i] # p[j]}

\* t.randint(low, high, size=(n,)): n independent draws from low..high-1.
randint(low, high, n) == [1..n -> low..(high - 1)]

only_items_with_count_one(input) ==
    SortedSeq({v \in Range(input) : Count(input, v) = 1})

(***************************************************************************)
(* get_negative_edges_random: the set of results the call can produce.     *)
(* all_edges is read only through its column count (shape1) and the        *)
(* largest id of its second row (id_max).                                  *)
(***************************************************************************)
ExactBranchNoSlice(filter, id_max, num, randomization) ==
    LET only_negative_edges ==
            only_items_with_count_one(arange(0, id_max + 1) \o filter)
    IN  IF randomization
        THEN {Ok(IndexBy(only_negative_edges, p)) :
                 p \in randperm(Len(only_negative_edges))}
        ELSE {Ok(<<id_max>>)}

ExactBranch(filter, id_max, num, randomization) ==
    LET only_negative_edges ==
            only_items_with_count_one(arange(0, id_max + 1) \o filter)
    IN  IF randomization
        THEN {Ok(SliceTo(IndexBy(only_negative_edges, p), num)) :
                 p \in randperm(Len(only_negative_edges))}
        ELSE {Ok(<<id_max>>)}

HighRatioBranch(id_max, num, randomization) ==
    IF randomization
    THEN IF id_max <= 0
         THEN {Raise("RuntimeError")}
         ELSE {Ok(r) : r \in randint(0, id_max, num)}
    ELSE {Ok(<<id_max>>)}

\* shape1 / num > 100 in true division, for num # 0.
RatioAbove(shape1, num) ==
    IF num > 0 THEN shape1 > RatioThreshold * num
    ELSE shape1 < RatioThreshold * num

get_negative_edges_random(filter, all_edges, num, randomization) ==
    IF num = 0
    THEN {Raise("ZeroDivisionError")}
    ELSE IF RatioAbove(all_edges.shape1, num)
         THEN HighRatioBranch(all_edges.id_max, num, randomization)
         ELSE ExactBranch(filter, all_edges.id_max, num, randomization)

(***************************************************************************)
(* remap_edges_to_start_from_zero.                                         *)
(***************************************************************************)
bucketize_right(v, boundaries) ==
    Cardinality({i \in DOMAIN boundaries : boundaries[i] <= v})

\* t.bucketize(v, boundaries), right=False, for ascending boundaries: the
\* first position whose boundary is >= v, len(boundaries) when there is none.
bucketize(v, boundaries) ==
    Cardinality({i \in DOMAIN boundaries : boundaries[i] < v})

\* edges is a pair of rows <<row0, row1>> of equal length.
remap_edges_to_start_from_zero(edges, buckets_1st_dim, buckets_2nd_dim) ==
    Ok(<< [i \in DOMAIN edges[1] |-> bucketize(edges[1][i], buckets_1st_dim)],
          [i \in DOMAIN edges[2] |-> bucketize(edges[2][i], buckets_2nd_dim)] >>)

(***************************************************************************)
(* torch_sparse.SparseTensor as used by run_link_prop.py: a record         *)
(* [rows, cols, e] whose e is the coordinate list, a sequence of entries   *)
(* [r, c, v] kept in row-major order.  The values are float32 (lines 45,   *)
(* 67 and 110 make them torch.float): numbers that count a power-of-two    *)
(* unit, every sum and difference rounded to the nearest float32.          *)
(***************************************************************************)
Key(x, cols) == x.r * cols + x.c

RECURSIVE SumSeq(_)
SumSeq(s) == IF s = <<>> THEN 0 ELSE Head(s) + SumSeq(Tail(s))

RECURSIVE MaxSeq(_)
MaxSeq(s) ==
    IF Len(s) = 1 THEN s[1] ELSE Max2(Head(s), MaxSeq(Tail(s)))

RECURSIVE ConcatAll(_)
ConcatAll(ss) == IF ss = <<>> THEN <<>> ELSE Head(ss) \o ConcatAll(Tail(ss))

\* The entries of e whose key is k, in their order in e.
WithKey(e, cols, k) == SelectSeq(e, LAMBDA x : Key(x, cols) = k)

\* SparseTensor(row=, col=, value=, sparse_sizes=): the storage sorts the
\* entries by row * cols + col.
SparseTensor(e, rows, cols) ==
    LET keys == SortedSeq({Key(e[i], cols) : i \in DOMAIN e})
    IN  [rows |-> rows, cols |-> cols,
         e |-> ConcatAll([k \in DOMAIN keys |-> WithKey(e, cols, keys[k])])]

\* The float32 sum of the values, added one after the other.
RECURSIVE float32_sum(_)
float32_sum(s) ==
    IF s = <<>> THEN 0
    ELSE IF Len(s) = 1 THEN s[1]
    ELSE float32(float32_sum(SubSeq(s, 1, Len(s) - 1)) + s[Len(s)])

Reduce(reduce, vals) ==
    IF reduce = "add" THEN float32_sum(vals) ELSE MaxSeq(vals)

\* SparseTensor.coalesce(reduce): one entry per coordinate, the values of
\* its duplicates combined by reduce.
coalesce(m, reduce) ==
    LET keys == SortedSeq({Key(m.e[i], m.cols) : i \in DOMAIN m.e})
        group(k) == WithKey(m.e, m.cols, keys[k])
    IN  [m EXCEPT !.e =
            [k \in DOMAIN keys |->
                [r |-> group(k)[1].r, c |-> group(k)[1].c,
                 v |-> Reduce(reduce, [i \in DOMAIN group(k) |-> group(k)[i].v])]]]

Coords(m) == (0..(m.rows - 1)) \X (0..(m.cols - 1))

\* Whether the coordinate holds an explicit entry.
Stored(m, r, c) == \E i \in DOMAIN m.e : m.e[i].r = r /\ m.e[i].c = c

\* m.to_dense()[r, c]: zeros, overwritten by the entries in storage order.
At(m, r, c) ==
    LET hits == {i \in DOMAIN m.e : m.e[i].r = r /\ m.e[i].c = c}
    IN  IF hits = {} THEN 0 ELSE m.e[SetMax(hits)].v

to_dense(m) == [rc \in Coords(m) |-> At(m, rc[1], rc[2])]

\* m[i, j]: narrow to row i, then to column j.
select(m, i, j) ==
    [rows |-> 1, cols |-> 1,
     e |-> [k \in DOMAIN WithKey(m.e, m.cols, i * m.cols + j) |->
               [r |-> 0, c |-> 0,
                v |-> WithKey(m.e, m.cols, i * m.cols + j)[k].v]]]

\* torch.arange(len(mask))[mask]: the selected positions, ascending.
MaskPositions(mask) == SortedSeq({i - 1 : i \in {k \in DOMAIN mask : mask[k]}})

\* The rank of a selected position among the selected positions.
MaskRank(mask, p) == Cardinality({k \in DOMAIN mask : mask[k] /\ k - 1 < p})

\* m[mask, :] (dim = 0) or m[:, mask] (dim = 1): the selected rows or
\* columns, renumbered from 0.
masked_select(m, dim, mask) ==
    LET n == Cardinality({k \in DOMAIN mask : mask[k]})
        kept == SelectSeq(m.e, LAMBDA x :
                    IF dim = 0 THEN mask[x.r + 1] ELSE mask[x.c + 1])
    IN  [rows |-> IF dim = 0 THEN n ELSE m.rows,
         cols |-> IF dim = 0 THEN m.cols ELSE n,
         e |-> [k \in DOMAIN kept |->
                  IF dim = 0
                  THEN [kept[k] EXCEPT !.r = MaskRank(mask, kept[k].r)]
                  ELSE [kept[k] EXCEPT !.c = MaskRank(mask, kept[k].c)]]]

\* Line 67 appends torch.tensor([val], dtype=torch.float) - prev, a float32
\* difference, and coalesce("add") adds it to the stored value in float32.
sparse_assign(m, i, j, val) ==
    IF ~(i < m.rows /\ j < m.cols)
    THEN Raise("AssertionError")
    ELSE LET prev == At(select(m, i, j), 0, 0)
         IN  Ok(coalesce(SparseTensor(
                    Append(m.e, [r |-> i, c |-> j,
                                 v |-> float32(float32(val) - prev)]),
                    m.rows, m.cols), "add"))

\* Line 84 appends val - prev_value, float32 differences, for the stored
\* entries the mask selects.
sparse_fill_on_mask(m, mask, val, dim) ==
    LET prev == masked_select(m, dim, mask)
        restored ==
            [k \in DOMAIN prev.e |->
                [r |-> IF dim = 0 THEN MaskPositions(mask)[prev.e[k].r + 1]
                                  ELSE prev.e[k].r,
                 c |-> IF dim = 0 THEN prev.e[k].c
                                  ELSE MaskPositions(mask)[prev.e[k].c + 1],
                 v |-> float32(float32(val) - prev.e[k].v)]]
    IN  Ok(coalesce(SparseTensor(m.e \o restored, m.rows, m.cols), "add"))

sparse_cat_no_offset(m, n) ==
    IF m.cols # n.cols
    THEN Raise("AssertionError")
    ELSE Ok(coalesce(SparseTensor(m.e \o n.e, m.rows + n.rows, m.cols), "add"))

sparse_cat(m, n) ==
    IF m.cols # n.cols
    THEN Raise("AssertionError")
    ELSE LET shifted == [k \in DOMAIN n.e |->
                            [n.e[k] EXCEPT !.r = n.e[k].r + m.rows]]
         IN  Ok(coalesce(SparseTensor(m.e \o shifted,
                                      m.rows + n.rows, m.cols), "add"))

(***************************************************************************)
(* sample_user_items and LinkPropMulti.  Degrees raised to a negative      *)
(* exponent are fractions; the exponents are 0 or 1 and every such power   *)
(* is kept as its numerator over the common denominator DegreeScale, so    *)
(* that M_alpha_beta and M_gamma_delta are scaled by DegreeScale^2 and the *)
(* scores by DegreeScale^4.  The powers of the model are 1 and 1/2, so the *)
(* scale is a power of two and the float32 nearest to a scaled number is   *)
(* the scaled float32 nearest to the number: every float32 sum, difference *)
(* and product of the code is rounded on the scaled numbers.               *)
(***************************************************************************)
RECURSIVE Factorial(_)
Factorial(n) == IF n <= 1 THEN 1 ELSE n * Factorial(n - 1)

DegreeScale == 2

ScoreScale == DegreeScale * DegreeScale * DegreeScale * DegreeScale

\* m.sum(dim=1)[r] and m.sum(dim=0)[c]: float32 sums of the stored values
\* of the row or column, added in storage order.
RowSum(m, r) ==
    float32_sum([k \in DOMAIN SelectSeq(m.e, LAMBDA x : x.r = r) |->
               SelectSeq(m.e, LAMBDA x : x.r = r)[k].v])

ColSum(m, c) ==
    float32_sum([k \in DOMAIN SelectSeq(m.e, LAMBDA x : x.c = c) |->
               SelectSeq(m.e, LAMBDA x : x.c = c)[k].v])

\* The stored entries whose value is not 0.
sparse_nonzero(m) == SelectSeq(m.e, LAMBDA x : x.v # 0)

\* Lines 144-145: value[rand_mask] = 0, then value[value == 2] = 1.
KeptValue(v, masked) == IF masked THEN 0 ELSE IF v = 2 THEN 1 ELSE v

\* Lines 156-158: 1 -> 2, then 0 -> 1, then 2 -> 0.
FlippedValue(v) == IF v = 1 \/ v = 2 THEN 0 ELSE IF v = 0 THEN 1 ELSE v

\* sample_user_items(target, ratio) for a ratio > 0: the pairs (data,
\* target_new_links) it can return.  torch.rand selects any subset of the
\* entries marked 2 (those of users with more than one item).
sample_user_items(target) ==
    LET mask == [r \in 1..target.rows |-> RowSum(target, r - 1) > 1]
        candidate == sparse_fill_on_mask(target, mask, 2, 0).val
        nz == sparse_nonzero(candidate)
        data(rand_mask) ==
            coalesce(SparseTensor(
                [k \in DOMAIN nz |->
                    [nz[k] EXCEPT !.v = KeptValue(nz[k].v, k \in rand_mask)]],
                target.rows, target.cols), "add")
        flipped(d) ==
            coalesce(SparseTensor(
                [k \in DOMAIN d.e |-> [d.e[k] EXCEPT !.v = FlippedValue(d.e[k].v)]],
                target.rows, target.cols), "add")
    IN  {[data |-> data(rand_mask), target |-> flipped(data(rand_mask))] :
            rand_mask \in SUBSET {k \in DOMAIN nz : nz[k].v = 2}}

\* degree ** (-exponent) times DegreeScale, inf replaced by 0 (lines
\* 231-240), where the float32 power is a fraction of DegreeScale: the
\* exponent 0 (every power is 1, 0 ** (-0) included) and the exponent 1 for
\* the degrees 0 (inf), 1 and 2.  Other powers, those of the exponents 0.1,
\* 0.2 and 0.5 of the script among them, are no numbers of the model.
NegPower(degree, exponent) ==
    CASE exponent = 0 -> DegreeScale
      [] exponent = 1 /\ degree = 0 -> 0
      [] exponent = 1 /\ degree \in {1, 2} -> DegreeScale \div degree

\* Lines 246-258: the entries of M that are not 0, weighted.
Weighted(M, user_exp, item_exp) ==
    [rows |-> M.rows, cols |-> M.cols,
     e |-> [k \in DOMAIN sparse_nonzero(M) |->
              [sparse_nonzero(M)[k] EXCEPT !.v =
                  float32(
                      float32(
                          NegPower(RowSum(M, sparse_nonzero(M)[k].r), user_exp)
                              * NegPower(ColSum(M, sparse_nonzero(M)[k].c),
                                         item_exp))
                          * sparse_nonzero(M)[k].v)]]]

\* The estimator after fit_for_score(M).
fit_for_score(self, M) ==
    [self EXCEPT
        !.user_degrees = [r \in 1..M.rows |-> RowSum(M, r - 1)],
        !.item_degrees = [c \in 1..M.cols |-> ColSum(M, c - 1)],
        !.M_alpha_beta = Weighted(M, self.alpha, self.beta),
        !.M_gamma_delta = Weighted(M, self.gamma, self.delta)]

\* matmul(matmul(A[start:end], B.t()), C).to_dense(): row r of the result
\* is row start + r of A.  Each matmul is a float32 product of two sparse
\* matrices: an entry of the product is the float32 sum, over the inner
\* index in ascending order, of the float32 products of the factors.
ScoresWith(A, B, C, start, end) ==
    LET inner(r, u) ==
            float32_sum([c \in 1..B.cols |->
                            float32(At(A, start + r, c - 1) * At(B, u, c - 1))])
    IN  [rc \in (0..(end - start - 1)) \X (0..(C.cols - 1)) |->
            float32_sum([u \in 1..B.rows |->
                            float32(inner(rc[1], u - 1)
                                        * At(C, u - 1, rc[2]))])]

\* Line 272 reads the module-level name M, not an attribute or argument.
get_preds_for_users(self, M_module, start, end) ==
    ScoresWith(self.M_alpha_beta, M_module, self.M_gamma_delta, start, end)

\* Line 278: the score minus SuppressConstant where M reads 1, a float32
\* difference, clamped at 0.
suppress_observed(user_pred, M, start, end) ==
    [rc \in DOMAIN user_pred |->
        Max2(float32(user_pred[rc]
                         - (IF At(M, start + rc[1], rc[2]) = 1 THEN 1 ELSE 0)
                               * SuppressConstant * ScoreScale),
             0)]

\* Tensor.topk(k, dim=1)[1] for one row: k distinct columns in descending
\* order of value; which of several equal values comes first, or is left
\* out, is not specified.
topk_row(dense, r, cols, k) ==
    {ix \in [1..k -> 0..(cols - 1)] :
        /\ \A i, j \in 1..k : i < j =>
              /\ ix[i] # ix[j]
              /\ dense[<<r, ix[i]>>] >= dense[<<r, ix[j]>>]
        /\ \A c \in (0..(cols - 1)) \ Range(ix) :
              dense[<<r, c>>] <= dense[<<r, ix[k]>>]}

\* predict_k(M, start, end, k): the index matrices it can return, one row
\* of k columns per user of the range.
predict_k(self, M_module, M, start, end, k) ==
    IF k > M.cols
    THEN {Raise("RuntimeError")}
    ELSE UNION {
           {Ok(ix) :
              ix \in {f \in [0..(end - start - 1) ->
                               UNION {topk_row(user_pred, r, M.cols, k) :
                                         r \in 0..(end - start - 1)}] :
                         \A r \in 0..(end - start - 1) :
                            f[r] \in topk_row(user_pred, r, M.cols, k)}} :
           user_pred \in {suppress_observed(
                              get_preds_for_users(self, M_module, start, end),
                              M, start, end)}}

\* Line 298: y[start:end].to_dense().squeeze().topk(self.k, dim=1)[1].
\* squeeze drops every dimension of size 1, and topk along dim 1 of a tensor
\* with fewer than two dimensions raises IndexError; k beyond the number of
\* columns raises RuntimeError.
target_pred(y, start, end, k) ==
    IF end - start = 1 \/ y.cols = 1
    THEN {Raise("IndexError")}
    ELSE IF k > y.cols
    THEN {Raise("RuntimeError")}
    ELSE UNION {
           {Ok(ix) :
              ix \in {f \in [0..(end - start - 1) ->
                               UNION {topk_row(dense, r, y.cols, k) :
                                         r \in 0..(end - start - 1)}] :
                         \A r \in 0..(end - start - 1) :
                            f[r] \in topk_row(dense, r, y.cols, k)}} :
           dense \in {[rc \in (0..(end - start - 1)) \X (0..(y.cols - 1)) |->
                         At(y, start + rc[1], rc[2])]}}

\* Lines 299-300: torch.cat((topk, pred)), the rows of pred after those of
\* topk.  topk starts as torch.empty(size=(0, k)), a float32 tensor (lines
\* 292-293), so the result is float32 and holds the float32 nearest to each
\* index.
cat_rows(topk, pred) ==
    topk \o [i \in 1..Cardinality(DOMAIN pred) |->
                [j \in DOMAIN pred[i - 1] |-> float32(pred[i - 1][j])]]

(***************************************************************************)
(* mean_average_precision.  y_true and y_pred are sequences of rows.  A    *)
(* precision is a fraction count / rank; every one is kept as its          *)
(* numerator over the common denominator Factorial(k), and the result is   *)
(* the fraction [num, den].                                                *)
(***************************************************************************)
\* np.argsort(aux, kind="mergesort"): the 0-based positions of aux in
\* ascending order of value, equal values in order of position.
argsort_stable(aux) ==
    LET keys == SortedSeq({aux[i] * Len(aux) + (i - 1) : i \in DOMAIN aux})
    IN  [i \in DOMAIN keys |-> keys[i] % Len(aux)]

\* aux[1:] == aux[:-1] on the sorted concatenation: the positions i (1-based)
\* whose value equals the next one.
intersect_mask(ar1, ar2) ==
    LET aux == ar1 \o ar2
        order == argsort_stable(aux)
    IN  {i \in 1..(Len(aux) - 1) : aux[order[i] + 1] = aux[order[i + 1] + 1]}

inter_idxs_in_truth(ar1, ar2) ==
    LET order == argsort_stable(ar1 \o ar2)
        hits == SortedSeq(intersect_mask(ar1, ar2))
    IN  [j \in DOMAIN hits |-> order[hits[j]]]

\* The third result of np.intersect1d(ar1, ar2, assume_unique=True,
\* return_indices=True): aux_sort_indices[1:][mask] - ar1.size.
inter_idxs(ar1, ar2) ==
    LET order == argsort_stable(ar1 \o ar2)
        hits == SortedSeq(intersect_mask(ar1, ar2))
    IN  [j \in DOMAIN hits |-> order[hits[j] + 1] - Len(ar1)]

\* Lines 172-179 for one row: zeros(k) with rel_at_k[idx, inter_idxs] = 1.
\* An index outside -k..k-1 raises IndexError.
rel_at_k_row(truth, pred, k) ==
    LET ix == inter_idxs(truth, SliceTo(pred, k))
    IN  IF \E j \in DOMAIN ix : ix[j] >= k \/ ix[j] < -k
        THEN Raise("IndexError")
        ELSE Ok([p \in 1..k |->
                    IF \E j \in DOMAIN ix :
                          (IF ix[j] < 0 THEN ix[j] + k ELSE ix[j]) = p - 1
                    THEN 1 ELSE 0])

\* rel_at_k.cumsum(axis=1) for one row.
cumsum(row) == [p \in DOMAIN row |-> SumSeq(SubSeq(row, 1, p))]

\* Lines 182-193 for one row: the sum of (cumsum / ranks) * rel_at_k, times
\* Factorial(k).
precision_sum_row(rel, k) ==
    SumSeq([p \in 1..k |-> (cumsum(rel)[p] * (Factorial(k) \div p)) * rel[p]])

\* rel_at_k has one row per row of y_true (line 172); the zip of line 175
\* fills the rows that y_pred has too, the others stay zero; the mean of
\* line 196 is over all the rows.
mean_average_precision(y_true, y_pred, k) ==
    LET n == Len(y_true)
        zipped == Min2(Len(y_true), Len(y_pred))
        rel_at_k == [r \in 1..n |->
                        IF r <= zipped
                        THEN rel_at_k_row(y_true[r], y_pred[r], k)
                        ELSE Ok([p \in 1..k |-> 0])]
    IN  IF \E r \in 1..n : rel_at_k[r].err # "none"
        THEN [err |-> "IndexError", rel_at_k |-> <<>>, val |-> <<>>]
        ELSE [err |-> "none",
              rel_at_k |-> [r \in 1..n |-> rel_at_k[r].val],
              val |-> [num |-> SumSeq([r \in 1..n |->
                                  precision_sum_row(rel_at_k[r].val, k)]),
                       den |-> n * k * Factorial(k)]]

\* np.array(scores).mean() (lines 302 and 306) as a fraction.
RECURSIVE SumFractions(_)
SumFractions(fs) ==
    IF fs = <<>>
    THEN [num |-> 0, den |-> 1]
    ELSE LET rest == SumFractions(Tail(fs))
         IN  [num |-> Head(fs).num * rest.den + rest.num * Head(fs).den,
              den |-> Head(fs).den * rest.den]

scores_mean(scores) ==
    [num |-> SumFractions(scores).num,
     den |-> SumFractions(scores).den * Len(scores)]

(***************************************************************************)
(* fetch_n_hop_neighbourhood.  An edge tensor of shape [2, E] is the pair  *)
(* of its rows.  users maps a user id to the list of its item ids,         *)
(* articles maps an item id to the list of its user ids.                   *)
(***************************************************************************)
EmptyEdges == << <<>>, <<>> >>

CatEdges(a, b) == << a[1] \o b[1], a[2] \o b[2] >>

RECURSIVE CatAllEdges(_)
CatAllEdges(es) ==
    IF es = <<>> THEN EmptyEdges ELSE CatEdges(Head(es), CatAllEdges(Tail(es)))

\* Line 251 builds the source row with t.Tensor([source_index]), a float32
\* tensor, and converts it to long: the row repeats the float32 nearest to
\* the id, which is the id itself below 2^24.  Line 252 keeps the targets.
create_edges_from_target_indices(source_index, target_indices) ==
    << [i \in DOMAIN target_indices |-> float32(source_index)],
       target_indices >>

create_neighbouring_article_edges(user_id, users) ==
    [articles |-> users[user_id],
     edges |-> create_edges_from_target_indices(user_id, users[user_id])]

flatten(lists) == ConcatAll(lists)

\* random.sample(array, n): n distinct positions of array, in any order;
\* ValueError when n is negative or larger than the population.
random_sample(array, n) ==
    IF n < 0 \/ n > Len(array)
    THEN {Raise("ValueError")}
    ELSE {Ok(IndexBy(array, p)) :
             p \in {q \in [1..n -> 0..(Len(array) - 1)] :
                       \A i, j \in 1..n : i # j => q[i] # q[j]}}

shuffle_and_cut_keep_all(array, n) == {Ok(array)}

\* The outcomes of the call: the list it returns, or the exception of
\* random.sample (line 291), which a negative n brings about.
shuffle_and_cut(array, n) ==
    IF Len(array) > n THEN random_sample(array, n) ELSE {Ok(array)}

\* The order in which "for x in s" visits a set of small non-negative ints
\* that was built by adding its elements one at a time, as set(list) does.
\* An int hashes to itself and sits in slot hash mod table size.  The table
\* starts with 8 slots; when after an addition 5 * elements >= 3 * (slots - 1)
\* it is rebuilt with the smallest power of two above 4 * elements (8 slots
\* up to 4 elements, 32 up to 18, 128 up to 76, ...; above 50000 elements
\* the smallest power of two above 2 * elements).  When no two elements
\* share a slot the visit is in slot order; when some do, their places depend
\* on the order of the additions, and any order is possible.
RECURSIVE GrowTable(_, _)
GrowTable(size, minused) ==
    IF size <= minused THEN GrowTable(2 * size, minused) ELSE size

RECURSIVE TableSizeAfter(_)
TableSizeAfter(n) ==
    IF n = 0
    THEN 8
    ELSE LET size == TableSizeAfter(n - 1)
         IN  IF n * 5 < (size - 1) * 3
             THEN size
             ELSE GrowTable(8, IF n > 50000 THEN n * 2 ELSE n * 4)

RECURSIVE InSlotOrder(_, _)
InSlotOrder(s, size) ==
    IF s = {}
    THEN <<>>
    ELSE LET first == CHOOSE x \in s : \A y \in s : x % size <= y % size
         IN  <<first>> \o InSlotOrder(s \ {first}, size)

set_iteration(s) ==
    LET size == TableSizeAfter(Cardinality(s))
    IN  IF \A x, y \in s : x # y => x % size # y % size
        THEN {InSlotOrder(s, size)}
        ELSE {q \in [1..Cardinality(s) -> s] :
                 \A i, j \in 1..Cardinality(s) : i # j => q[i] # q[j]}

NHopStart(user_id) ==
    [i |-> 0, accum_edges |-> EmptyEdges, users_explored |-> {},
     users_queue |-> {user_id}, articles_queue |-> <<>>, running |-> TRUE,
     err |-> "none"]

append_hop_edges_always(i, accum_edges, new_edges) ==
    CatEdges(accum_edges, new_edges)

\* Lines 275-277: the edges of hop 0 are not appended.
append_hop_edges(i, accum_edges, new_edges) ==
    IF i # 0 THEN CatEdges(accum_edges, new_edges) ELSE accum_edges

\* Lines 280-283: the users of the queued articles that are not yet explored.
new_users(articles_queue, articles, users_explored) ==
    Range(flatten([k \in DOMAIN articles_queue |-> articles[articles_queue[k]]]))
        \ users_explored

break_never(new_articles_and_edges) == FALSE

\* Line 271: the loop is left when no user was queued for this pass.
break_on_empty(new_articles_and_edges) == Len(new_articles_and_edges) = 0

\* One pass of the loop body that visits the queued users in the order
\* queue: the loop states it can lead to.  articles_queue is the local of
\* that name as the pass leaves it (unbound, here <<>>, until line 279 first
\* assigns it).  list(new_users) is in the set's visiting order; only its
\* elements matter, since line 284 makes a set of the outcome.  An
\* exception of shuffle_and_cut (lines 279 and 284) ends the loop and the
\* call: err names it.
HopPass(st, queue, users, articles, num_neighbors) ==
    LET new_articles_and_edges ==
            [k \in DOMAIN queue |->
                create_neighbouring_article_edges(queue[k], users)]
        users_explored == st.users_explored \cup st.users_queue
    IN  IF break_on_empty(new_articles_and_edges)
        THEN {[st EXCEPT !.users_explored = users_explored,
                         !.running = FALSE]}
        ELSE LET new_articles ==
                     flatten([k \in DOMAIN queue |->
                                 new_articles_and_edges[k].articles])
                 new_edges ==
                     CatAllEdges([k \in DOMAIN queue |->
                                     new_articles_and_edges[k].edges])
                 accum_edges ==
                     append_hop_edges(st.i, st.accum_edges, new_edges)
                 raised(e) ==
                     [st EXCEPT !.accum_edges = accum_edges,
                                !.users_explored = users_explored,
                                !.running = FALSE,
                                !.err = e]
             IN  UNION {
                   IF articles_queue.err # "none"
                   THEN {raised(articles_queue.err)}
                   ELSE UNION {
                     {IF users_queue.err # "none"
                      THEN raised(users_queue.err)
                      ELSE [i |-> st.i + 1,
                            accum_edges |-> accum_edges,
                            users_explored |-> users_explored,
                            users_queue |-> Range(users_queue.val),
                            articles_queue |-> articles_queue.val,
                            running |-> TRUE,
                            err |-> "none"] :
                         users_queue \in
                             shuffle_and_cut(new_users_list, num_neighbors)} :
                     new_users_list \in
                         set_iteration(new_users(articles_queue.val, articles,
                                                 users_explored))} :
                   articles_queue \in shuffle_and_cut(new_articles, num_neighbors)}

\* One pass of the loop body, "for user in users_queue" visiting the set in
\* its iteration order.
HopStep(st, users, articles, num_neighbors) ==
    UNION {HopPass(st, queue, users, articles, num_neighbors) :
              queue \in set_iteration(st.users_queue)}

RECURSIVE NHopRun(_, _, _, _, _)
NHopRun(st, n, users, articles, num_neighbors) ==
    IF st.err # "none"
    THEN {Raise(st.err)}
    ELSE IF st.i >= n \/ ~st.running
    THEN {Ok(st.accum_edges)}
    ELSE UNION {NHopRun(nxt, n, users, articles, num_neighbors) :
                   nxt \in HopStep(st, users, articles, num_neighbors)}

\* The outcomes of the call: the accumulated edges it returns, or the
\* exception that ended it.
fetch_n_hop_neighbourhood(n, user_id, users, articles, num_neighbors) ==
    NHopRun(NHopStart(user_id), n, users, articles, num_neighbors)

(***************************************************************************)
(* GraphDataset.__getitem__: the results the call can produce.  d is the   *)
(* dataset object:                                                         *)
(*   d.graph.edge_index  [shape1, id_max] (see get_negative_edges_random)  *)
(*   d.graph.user_x, d.graph.item_x   the feature rows, one per id         *)
(*   d.users, d.articles, d.matchers, d.config, d.train, d.randomization   *)
(* d.matchers is <<"None">> or <<"List", ms>>, ms a sequence of matchers,  *)
(* each a function from the user id to its candidate item ids.             *)
(***************************************************************************)
Fail(e) == [err |-> e, data |-> <<>>, loc |-> <<>>]

\* t.min(s, dim=0)[1] and t.max(s, dim=0)[1]: 0-based position of the
\* extremal value.
argmin(s) ==
    (CHOOSE i \in DOMAIN s :
        /\ \A j \in DOMAIN s : s[i] <= s[j]
        /\ \A j \in 1..(i - 1) : s[j] # s[i]) - 1

argmax(s) ==
    (CHOOSE i \in DOMAIN s :
        /\ \A j \in DOMAIN s : s[i] >= s[j]
        /\ \A j \in 1..(i - 1) : s[j] # s[i]) - 1

\* A Python float between 0 and 1 is the record [whole, digits] of its
\* integer part and of the four digits of its fraction in base 2^18:
\* whole + digits[1] / 2^18 + ... + digits[4] / 2^72, which holds every
\* double from 2^-19 to 1 (and 0) exactly.
DigitBase == 2 ^ 18

RECURSIVE PowerOfTwoFrom(_, _)
PowerOfTwoFrom(p, x) == IF p >= x THEN p ELSE PowerOfTwoFrom(2 * p, x)

\* math.floor(n * ratio) for an int n below 4096: n * ratio is the double
\* nearest to the exact product, a tie going to the even mantissa.  The
\* exact product is floor + fraction, the fraction having the digits f1 to
\* f4.  Rounding to 53 significant bits moves it up to floor + 1 exactly
\* when the gap 1 - fraction is at most half the distance between floor + 1
\* and the double below it; that distance is 2^-53 times the smallest power
\* of two that is at least floor + 1, and floor + 1 wins a tie.  The gap is
\* counted in units of 2^-72.
FloorMul(n, ratio) ==
    LET t4 == n * ratio.digits[4]
        t3 == n * ratio.digits[3] + t4 \div DigitBase
        t2 == n * ratio.digits[2] + t3 \div DigitBase
        t1 == n * ratio.digits[1] + t2 \div DigitBase
        f1 == t1 % DigitBase
        f2 == t2 % DigitBase
        f3 == t3 % DigitBase
        f4 == t4 % DigitBase
        floor == n * ratio.whole + t1 \div DigitBase
        half_ulp == PowerOfTwoFrom(1, floor + 1)
    IN  IF /\ f1 = DigitBase - 1
           /\ f2 = DigitBase - 1
           /\ DigitBase - 1 - f3 <= half_ulp
           /\ (DigitBase - 1 - f3) * DigitBase + (DigitBase - f4)
                  <= half_ulp * DigitBase
        THEN floor + 1
        ELSE floor

samp_cut_no_minimum(d, positive_article_indices) ==
    FloorMul(Len(positive_article_indices), d.config.positive_edges_ratio)

samp_cut(d, positive_article_indices) ==
    Max2(1, FloorMul(Len(positive_article_indices),
                     d.config.positive_edges_ratio))

\* Lines 57-67: the positions of the sub-sampled positives.
random_integers(d, positive_article_indices) ==
    IF d.randomization
    THEN randint(0, Len(positive_article_indices),
                 samp_cut(d, positive_article_indices))
    ELSE {<<argmin(positive_article_indices),
            argmax(positive_article_indices)>>}

\* Lines 74-78.
negative_edges_ratio_configured(d, num_sampled_pos_edges) ==
    d.config.negative_edges_ratio

negative_edges_ratio(d, num_sampled_pos_edges) ==
    IF num_sampled_pos_edges <= 1
    THEN d.config.k - 1
    ELSE d.config.negative_edges_ratio

\* Lines 96-99.  t.cat of an empty list of tensors raises RuntimeError.
candidates(d, u) ==
    IF Len(d.matchers[2]) = 0
    THEN Raise("RuntimeError")
    ELSE Ok(unique(flatten([k \in DOMAIN d.matchers[2] |->
                               d.matchers[2][k][u]])))

\* Lines 80-106: the negative item ids, or the error raised.
sampled_negatives(d, u, positives, sampled_positives) ==
    IF d.train
    THEN get_negative_edges_random(
             sampled_positives,
             d.graph.edge_index,
             negative_edges_ratio(d, Len(sampled_positives))
                 * Len(sampled_positives),
             d.randomization)
    ELSE IF d.matchers[1] = "None"
         THEN {Raise("AssertionError")}
         ELSE IF candidates(d, u).err # "none"
              THEN {candidates(d, u)}
              ELSE {Ok(only_items_with_count_one(
                           candidates(d, u).val \o positives))}

Ones(n) == [i \in 1..n |-> 1]

Zeros(n) == [i \in 1..n |-> 0]

LabelsAllOnes(n_pos, n_neg) == Ones(n_pos + n_neg)

\* Lines 153-159.
Labels(n_pos, n_neg) == Ones(n_pos) \o Zeros(n_neg)

touched_edges_without_negatives(positive_article_edges, sampled_negative_article_edges, n_hop_edges) ==
    CatEdges(positive_article_edges, n_hop_edges)

\* Lines 116-123: all_touched_edges.
touched_edges(positive_article_edges, sampled_negative_article_edges, n_hop_edges) ==
    CatEdges(positive_article_edges,
             CatEdges(sampled_negative_article_edges, n_hop_edges))

\* Lines 116-182, once the three edge sets are known.
Assemble(d, u, positives, sampled_positives, sampled_negatives_, n_hop_edges) ==
    LET positive_article_indices == positives
        sampled_positive_article_indices == sampled_positives
        sampled_negative_article_indices == sampled_negatives_
        positive_article_edges ==
            create_edges_from_target_indices(u, positive_article_indices)
        sampled_positive_article_edges ==
            create_edges_from_target_indices(u, sampled_positive_article_indices)
        sampled_negative_article_edges ==
            create_edges_from_target_indices(u, sampled_negative_article_indices)
        all_touched_edges ==
            touched_edges(positive_article_edges,
                          sampled_negative_article_edges, n_hop_edges)
        all_subgraph_edges == CatEdges(positive_article_edges, n_hop_edges)
        user_buckets == unique(all_touched_edges[1])
        article_buckets == unique(all_touched_edges[2])
        remapped_subgraph ==
            remap_edges_to_start_from_zero(all_subgraph_edges, user_buckets,
                                           article_buckets).val
        remapped_sampled ==
            remap_edges_to_start_from_zero(
                CatEdges(sampled_positive_article_edges,
                         sampled_negative_article_edges),
                user_buckets, article_buckets).val
        labels == Labels(Len(sampled_positive_article_edges[1]),
                         Len(sampled_negative_article_edges[1]))
    IN  IF \/ \E k \in DOMAIN user_buckets : user_buckets[k] >= Len(d.graph.user_x)
           \/ \E k \in DOMAIN article_buckets :
                 article_buckets[k] >= Len(d.graph.item_x)
        THEN Fail("IndexError")
        ELSE [err |-> "none",
              data |->
                [user_x |-> IndexBy(d.graph.user_x, user_buckets),
                 item_x |-> IndexBy(d.graph.item_x, article_buckets),
                 edge_index |-> remapped_subgraph,
                 edge_label_index |-> remapped_sampled,
                 edge_label |-> labels,
                 rev_edge_index |-> <<remapped_subgraph[2], remapped_subgraph[1]>>,
                 rev_edge_label_index |->
                     <<remapped_sampled[2], remapped_sampled[1]>>,
                 rev_edge_label |-> labels],
              loc |->
                [positive_article_indices |-> positive_article_indices,
                 sampled_positive_article_indices |->
                     sampled_positive_article_indices,
                 sampled_negative_article_indices |->
                     sampled_negative_article_indices,
                 n_hop_edges |-> n_hop_edges,
                 user_buckets |-> user_buckets,
                 article_buckets |-> article_buckets]]

getitem(d, u) ==
    LET positive_article_indices == d.users[u]
    IN  IF Len(positive_article_indices) = 0
        THEN \* t.randint(low=0, high=0) (line 58) raises RuntimeError,
             \* t.min of an empty tensor along dim 0 (line 64) IndexError.
             {Fail(IF d.randomization THEN "RuntimeError" ELSE "IndexError")}
        ELSE UNION {
               UNION {
                 IF neg.err # "none"
                 THEN {Fail(neg.err)}
                 ELSE {IF n_hop_edges.err # "none"
                       THEN Fail(n_hop_edges.err)
                       ELSE Assemble(d, u, positive_article_indices,
                                     IndexBy(positive_article_indices, ri),
                                     neg.val, n_hop_edges.val) :
                          n_hop_edges \in
                              fetch_n_hop_neighbourhood(
                                  d.config.n_hop_neighbors, u, d.users,
                                  d.articles, d.config.num_neighbors)} :
                 neg \in sampled_negatives(
                            d, u, positive_article_indices,
                            IndexBy(positive_article_indices, ri))} :
               ri \in random_integers(d, positive_article_indices)}

SparseIdle ==
    /\ sp_m = NotCalled
    /\ sp_call = NotCalled
    /\ sp_expect = <<>>

DatasetIdle ==
    /\ ds = NotCalled
    /\ idx = 0
    /\ item = NotCalled

NHopIdle == hop = NotCalled

LinkIdle ==
    /\ lp = NotCalled
    /\ map_call = NotCalled

(***************************************************************************)
(* Specification of the negative sampler alone.                            *)
(***************************************************************************)
SeqsUpTo(S, n) == UNION {[1..k -> S] : k \in 0..n}

EdgeCounts ==
    {1} \cup {RatioThreshold * n + d : n \in 1..MaxNeg, d \in {0, 1}}

InitSampler ==
    /\ pc = "sampler_call"
    /\ \E id_max \in 0..MaxId, shape1 \in EdgeCounts, num \in 0..MaxNeg,
          randomization \in BOOLEAN :
         \E filter \in SeqsUpTo(0..id_max, MaxFilterLen) :
            neg_call = [filter |-> filter,
                        all_edges |-> [shape1 |-> shape1, id_max |-> id_max],
                        num |-> num,
                        randomization |-> randomization,
                        ret |-> NotCalled]
    /\ remap_call = NotCalled
    /\ SparseIdle
    /\ DatasetIdle
    /\ NHopIdle
    /\ LinkIdle

CallSampler ==
    /\ pc = "sampler_call"
    /\ \E r \in get_negative_edges_random(neg_call.filter, neg_call.all_edges,
                                          neg_call.num, neg_call.randomization) :
          neg_call' = [neg_call EXCEPT !.ret = r]
    /\ pc' = "sampler_returned"
    /\ UNCHANGED <<remapVars, sparseVars, datasetVars, nhopVars, linkVars>>

NextSampler == CallSampler

SpecSampler == InitSampler /\ [][NextSampler]_vars

(***************************************************************************)
(* Specification of the index remapper alone.  Buckets are ascending and   *)
(* duplicate-free (the caller builds them with t.unique(sorted=True)); the *)
(* edge ids are any ids, in the bucket or not.                             *)
(***************************************************************************)
Buckets(S) == {SortedSeq(B) : B \in SUBSET S}

InitRemap ==
    /\ pc = "remap_call"
    /\ \E n \in 1..MaxEdgeLen :
         \E row0 \in [1..n -> 0..MaxUserId], row1 \in [1..n -> 0..MaxId],
            b0 \in Buckets(0..MaxUserId), b1 \in Buckets(0..MaxId) :
            remap_call = [edges |-> <<row0, row1>>,
                          buckets_1st_dim |-> b0,
                          buckets_2nd_dim |-> b1,
                          ret |-> NotCalled]
    /\ neg_call = NotCalled
    /\ SparseIdle
    /\ DatasetIdle
    /\ NHopIdle
    /\ LinkIdle

CallRemap ==
    /\ pc = "remap_call"
    /\ remap_call' =
          [remap_call EXCEPT !.ret =
              remap_edges_to_start_from_zero(remap_call.edges,
                                             remap_call.buckets_1st_dim,
                                             remap_call.buckets_2nd_dim)]
    /\ pc' = "remap_returned"
    /\ UNCHANGED <<samplerVars, sparseVars, datasetVars, nhopVars, linkVars>>

NextRemap == CallRemap

SpecRemap == InitRemap /\ [][NextRemap]_vars

(***************************************************************************)
(* Specifications of the sparse helpers.  Matrices are coalesced (every    *)
(* matrix of the program comes out of coalesce or from_dense) and hold at  *)
(* most MaxNnz explicit entries.  The values count units of 2^-27: they    *)
(* are the small integers 0.0, 1.0, ... and 0.1, whose float32 is          *)
(* 13421773 units.  The first operand of sparse_cat may have no rows, as   *)
(* the accumulator of sparse_batch_op has at first.                        *)
(***************************************************************************)
Vals == {v * 2 ^ 27 : v \in 0..MaxVal} \cup {float32((2 ^ 27 + 5) \div 10)}

FillVals == Vals \cup {(MaxVal + 1) * 2 ^ 27}

MatrixOf(rows, cols, f) ==
    LET keys == SortedSeq({rc[1] * cols + rc[2] : rc \in DOMAIN f})
    IN  [rows |-> rows, cols |-> cols,
         e |-> [k \in DOMAIN keys |->
                  [r |-> keys[k] \div cols, c |-> keys[k] % cols,
                   v |-> f[<<keys[k] \div cols, keys[k] % cols>>]]]]

Matrices(rows, cols, k) ==
    {MatrixOf(rows, cols, f) :
        f \in UNION {[S -> Vals] :
                S \in {T \in SUBSET ((0..(rows - 1)) \X (0..(cols - 1))) :
                          Cardinality(T) <= k}}}

InitAssign ==
    /\ pc = "assign_ready"
    /\ \E rows \in 1..MaxRows, cols \in 1..MaxCols :
         \E m \in Matrices(rows, cols, MaxNnz) :
            /\ sp_m = m
            /\ sp_expect = to_dense(m)
    /\ sp_call = NotCalled
    /\ neg_call = NotCalled
    /\ remap_call = NotCalled
    /\ DatasetIdle
    /\ NHopIdle
    /\ LinkIdle

\* m = sparse_assign(m, i, j, val), i and j in bounds or one past them.  A
\* failed assertion ends the run.
Assign ==
    /\ pc = "assign_ready"
    /\ \E i \in 0..sp_m.rows, j \in 0..sp_m.cols, val \in Vals :
         \E ret \in {sparse_assign(sp_m, i, j, val)} :
             IF ret.err = "none"
             THEN /\ Len(ret.val.e) <= MaxNnz
                  /\ sp_m' = ret.val
                  /\ sp_expect' = [sp_expect EXCEPT ![<<i, j>>] = val]
                  /\ sp_call' = [op |-> "assign", i |-> i, j |-> j, val |-> val,
                                 stored_before |-> Stored(sp_m, i, j),
                                 prev |-> At(sp_m, i, j),
                                 err |-> ret.err]
                  /\ pc' = pc
             ELSE /\ UNCHANGED <<sp_m, sp_expect>>
                  /\ sp_call' = [op |-> "assign", i |-> i, j |-> j, val |-> val,
                                 stored_before |-> FALSE,
                                 prev |-> 0,
                                 err |-> ret.err]
                  /\ pc' = "assign_failed"
    /\ UNCHANGED <<samplerVars, remapVars, datasetVars, nhopVars, linkVars>>

NextAssign == Assign

SpecAssign == InitAssign /\ [][NextAssign]_vars

Masks(n) == [1..n -> BOOLEAN]

InitFill ==
    /\ pc = "fill_call"
    /\ \E rows \in 1..MaxRows, cols \in 1..MaxCols, dim \in {0, 1},
          val \in FillVals :
         \E m \in Matrices(rows, cols, MaxNnz),
            mask \in Masks(IF dim = 0 THEN rows ELSE cols) :
            /\ sp_m = m
            /\ sp_call = [op |-> "fill", mask |-> mask, val |-> val,
                          dim |-> dim, ret |-> NotCalled]
    /\ sp_expect = <<>>
    /\ neg_call = NotCalled
    /\ remap_call = NotCalled
    /\ DatasetIdle
    /\ NHopIdle
    /\ LinkIdle

CallFill ==
    /\ pc = "fill_call"
    /\ sp_call' = [sp_call EXCEPT !.ret =
                      sparse_fill_on_mask(sp_m, sp_call.mask, sp_call.val,
                                          sp_call.dim)]
    /\ pc' = "fill_returned"
    /\ UNCHANGED <<sp_m, sp_expect, samplerVars, remapVars, datasetVars, nhopVars, linkVars>>

NextFill == CallFill

SpecFill == InitFill /\ [][NextFill]_vars

InitCat ==
    /\ pc = "cat_call"
    /\ \E ra \in 0..MaxRows, rb \in 1..MaxRows, ca \in 1..MaxCols,
          cb \in 1..MaxCols, ka \in 0..MaxNnz :
         \E a \in Matrices(ra, ca, ka), b \in Matrices(rb, cb, MaxNnz - ka) :
            /\ sp_m = a
            /\ sp_call = [op |-> "cat", n |-> b, ret |-> NotCalled]
    /\ sp_expect = <<>>
    /\ neg_call = NotCalled
    /\ remap_call = NotCalled
    /\ DatasetIdle
    /\ NHopIdle
    /\ LinkIdle

CallCat ==
    /\ pc = "cat_call"
    /\ sp_call' = [sp_call EXCEPT !.ret = sparse_cat(sp_m, sp_call.n)]
    /\ pc' = "cat_returned"
    /\ UNCHANGED <<sp_m, sp_expect, samplerVars, remapVars, datasetVars, nhopVars, linkVars>>

NextCat == CallCat

SpecCat == InitCat /\ [][NextCat]_vars

(***************************************************************************)
(* Specification of GraphDataset.__getitem__: a dataset object as          *)
(* __init__ leaves it, then one call for an anchor user.                   *)
(***************************************************************************)
\* The users that buy each item, ascending: the articles adjacency list
\* that matches a users adjacency list.
ArticlesOf(users) ==
    [a \in UNION {Range(users[u]) : u \in DOMAIN users} |->
        SortedSeq({u \in DOMAIN users : a \in Range(users[u])})]

\* Users adjacency lists: the end-to-end scenario of the design (users 0
\* and 1), a chain of three users with a user whose list is not ascending,
\* and a catalogue of a single item.
UsersLists ==
    { (0 :> <<0, 1, 2>> @@ 1 :> <<1, 3>>),
      (0 :> <<1>> @@ 1 :> <<1, 2, 3>> @@ 2 :> <<3, 0>>),
      (0 :> <<0>> @@ 1 :> <<0>>) }

NumEdges(users) ==
    LET ids == SortedSeq(DOMAIN users)
    IN  SumSeq([k \in DOMAIN ids |-> Len(users[ids[k]])])

IdMax(users) == SetMax(UNION {Range(users[u]) : u \in DOMAIN users})

\* The graph's edge_index holds the edges of the adjacency lists, or these
\* and the edges of users that no anchor reaches.
EdgeIndexes(users) ==
    {[shape1 |-> NumEdges(users) + rest, id_max |-> IdMax(users)] :
        rest \in {0, RatioThreshold * MaxNegRatio}}

\* Matchers: each maps a user to candidate item ids.
MatcherLists(users) ==
    { <<"None">>,
      <<"List", << [u \in DOMAIN users |-> <<3, 1>>] >> >>,
      <<"List", << [u \in DOMAIN users |-> <<0, 2>>],
                   [u \in DOMAIN users |-> <<2>>] >> >> }

\* The floats 0.5 and 1.0, and 2 / 3 = 0.6666666666666666, the double
\* 0x1.5555555555555p-1, whose product with 3 is rounded up to 2.0.
TwoThirds ==
    [whole |-> 0,
     digits |-> <<(2 * DigitBase) \div 3, (2 * DigitBase) \div 3,
                  (2 * DigitBase) \div 3, 0>>]

Ratios ==
    {[whole |-> 0, digits |-> <<DigitBase \div 2, 0, 0, 0>>],
     [whole |-> 1, digits |-> <<0, 0, 0, 0>>]}

Configs ==
    [k : 1..MaxK,
     positive_edges_ratio : Ratios,
     negative_edges_ratio : 1..MaxNegRatio,
     n_hop_neighbors : 0..MaxHops,
     num_neighbors : 1..MaxFanOut]

\* One more adjacency list has a user without items, and one more
\* configuration has the ratio 2 / 3; the users of every adjacency list are
\* built under it.
EmptyItemLists == { (0 :> <<0>> @@ 1 :> <<>>) }

RoundedConfigs ==
    [k : {MaxK},
     positive_edges_ratio : {TwoThirds},
     negative_edges_ratio : {1},
     n_hop_neighbors : {1},
     num_neighbors : {MaxFanOut}]

DatasetsOver(lists, configs) ==
    UNION {
      {[graph |-> [edge_index |-> e,
                   user_x |-> arange(0, Cardinality(DOMAIN users)),
                   item_x |-> arange(0, IdMax(users) + 1)],
        users |-> users,
        articles |-> ArticlesOf(users),
        matchers |-> m,
        config |-> c,
        train |-> t,
        randomization |-> r] :
          e \in EdgeIndexes(users), m \in MatcherLists(users), c \in configs,
          t \in BOOLEAN, r \in BOOLEAN} :
      users \in lists}

Datasets ==
    DatasetsOver(UsersLists, Configs)
        \cup DatasetsOver(UsersLists \cup EmptyItemLists, RoundedConfigs)

Init ==
    /\ pc = "getitem_call"
    /\ ds \in Datasets
    /\ idx \in DOMAIN ds.users
    /\ item = NotCalled
    /\ neg_call = NotCalled
    /\ remap_call = NotCalled
    /\ SparseIdle
    /\ NHopIdle
    /\ LinkIdle

GetItem ==
    /\ pc = "getitem_call"
    /\ item' \in getitem(ds, idx)
    /\ pc' = "getitem_returned"
    /\ UNCHANGED <<ds, idx, samplerVars, remapVars, sparseVars, nhopVars, linkVars>>

Next == GetItem

Spec == Init /\ [][Next]_vars

(***************************************************************************)
(* Properties of GraphDataset.__getitem__.                                 *)
(***************************************************************************)
\* The call returned an example.
Built == pc = "getitem_returned" /\ item.err = "none"

NumOnes(labels) == Cardinality({i \in DOMAIN labels : labels[i] = 1})

\* C1: in every example the label vector has as many entries as
\* edge_label_index has columns, the number of labels equal to 1 is the
\* number of sub-sampled positive edges, and the labels are one 1 per
\* sub-sampled positive followed by one 0 per negative.
C1_LabelsMatchScoringEdges ==
    Built =>
        LET n_pos == Len(item.loc.sampled_positive_article_indices)
            n_neg == Len(item.loc.sampled_negative_article_indices)
        IN  /\ Len(item.data.edge_label) = Len(item.data.edge_label_index[1])
            /\ Len(item.data.edge_label) = Len(item.data.edge_label_index[2])
            /\ NumOnes(item.data.edge_label) = n_pos
            /\ Len(item.data.edge_label) = n_pos + n_neg
            /\ \A i \in DOMAIN item.data.edge_label :
                  item.data.edge_label[i] = IF i <= n_pos THEN 1 ELSE 0

\* An example with two sub-sampled positives and at least one negative.
C1_Witness ==
    /\ Built
    /\ Len(item.loc.sampled_positive_article_indices) = 2
    /\ Len(item.loc.sampled_negative_article_indices) >= 1
    /\ item.data.edge_label[2] = 1
    /\ item.data.edge_label[3] = 0

\* C2: in evaluation mode the negatives are exactly the matcher candidates
\* with the anchor's positive items removed: every negative is a candidate
\* and no item of the anchor is a negative.
C2_EvalNegativesExcludePositives ==
    (Built /\ ~ds.train) =>
        /\ Range(item.loc.sampled_negative_article_indices)
              = Range(candidates(ds, idx).val) \ Range(ds.users[idx])
        /\ Range(item.loc.sampled_negative_article_indices)
              \cap Range(ds.users[idx]) = {}

\* max(1, math.floor(|positives| * positive_edges_ratio)) for the anchor,
\* the product being the double that Python computes.
RatioCount ==
    Max2(1, FloorMul(Len(ds.users[idx]), ds.config.positive_edges_ratio))

SubSample == item.loc.sampled_positive_article_indices

\* C13 as stated: the number of sub-sampled positives is
\* max(1, floor(|positives| * positive_edges_ratio)) in random and in
\* deterministic mode, every sub-sampled positive is an item of the anchor,
\* and in deterministic mode the sub-sample is the min-id and the max-id item.
C13_SubSampleCountBothModes ==
    Built =>
        /\ Len(SubSample) = RatioCount
        /\ Range(SubSample) \subseteq Range(ds.users[idx])
        /\ ~ds.randomization =>
              Range(SubSample) = {SetMin(Range(ds.users[idx])),
                                  SetMax(Range(ds.users[idx]))}

\* C13 amended: every sub-sampled positive is an item of the anchor; in
\* random mode their number is max(1, floor(|positives| *
\* positive_edges_ratio)), the product being the double nearest to the
\* exact product; in deterministic mode the sub-sample is the pair (min-id
\* item, max-id item), two entries whatever the ratio and the number of
\* positives.
C13_SubSampleCountRandomMode ==
    Built =>
        /\ Range(SubSample) \subseteq Range(ds.users[idx])
        /\ IF ds.randomization
           THEN Len(SubSample) = RatioCount
           ELSE SubSample = <<SetMin(Range(ds.users[idx])),
                              SetMax(Range(ds.users[idx]))>>

\* A random-mode example of an anchor with three items and the ratio 2 / 3:
\* two draws of the same item.  The exact product of 3 and the double 2 / 3
\* is below 2; the double product is 2.0.
C13_Witness ==
    /\ Built
    /\ ds.randomization
    /\ ds.config.positive_edges_ratio = TwoThirds
    /\ Len(ds.users[idx]) = 3
    /\ Len(SubSample) = 2
    /\ Cardinality(Range(SubSample)) = 1

Negatives == item.loc.sampled_negative_article_indices

\* The ratio the claim prescribes for the example's sub-sample.
PrescribedRatio ==
    IF Len(SubSample) <= 1 THEN ds.config.k - 1
    ELSE ds.config.negative_edges_ratio

\* The number of negatives a random-mode training build gets when it asks
\* the sampler for PrescribedRatio * |sub-sample| of them.
PrescribedNegatives ==
    IF RatioAbove(ds.graph.edge_index.shape1,
                  PrescribedRatio * Len(SubSample))
    THEN PrescribedRatio * Len(SubSample)
    ELSE Min2(PrescribedRatio * Len(SubSample),
              Cardinality((0..ds.graph.edge_index.id_max) \ Range(SubSample)))

\* The negatives of a training example follow the prescribed ratio: k - 1
\* when the sub-sample holds at most one positive, the configured ratio
\* otherwise (deterministic mode returns the single id id_max).
RatioOverride ==
    (Built /\ ds.train) =>
        IF ds.randomization
        THEN Len(Negatives) = PrescribedNegatives
        ELSE Negatives = <<ds.graph.edge_index.id_max>>

\* C14 as stated: the ratio is k - 1 for a sub-sample of at most one
\* positive and the configured ratio otherwise, so that a training example
\* built from such a sub-sample holds at least k scoring edges.
C14_AtLeastKCandidates ==
    /\ RatioOverride
    /\ (Built /\ ds.train /\ Len(SubSample) <= 1) =>
          Len(SubSample) + Len(Negatives) >= ds.config.k

\* C14 amended: the ratio is k - 1 for a sub-sample of at most one positive
\* and the configured ratio otherwise, so that a training example built from
\* such a sub-sample holds at least min(k, number of item ids 0..id_max)
\* scoring edges, and never more than k.
C14_AtLeastKOrCatalogue ==
    /\ RatioOverride
    /\ (Built /\ ds.train /\ Len(SubSample) <= 1) =>
          /\ Len(SubSample) + Len(Negatives)
                >= Min2(ds.config.k, ds.graph.edge_index.id_max + 1)
          /\ Len(SubSample) + Len(Negatives) <= ds.config.k

\* A training example with one sub-sampled positive, k = 2 and a configured
\* ratio of 2: one negative, two scoring edges.
C14_Witness ==
    /\ Built /\ ds.train
    /\ ds.config.k = 2
    /\ ds.config.negative_edges_ratio = 2
    /\ Len(SubSample) = 1
    /\ Len(Negatives) = 1
    /\ Len(item.data.edge_label_index[1]) = 2

\* C15: an evaluation-mode build without matchers fails on the assertion
\* "Must provide matchers for test" and emits no example, and a
\* training-mode build succeeds, with or without matchers.  A training
\* build that asks for 0 negatives (k = 1 and one sub-sampled positive) ends
\* in ZeroDivisionError, and a build for a user without items fails at the
\* sub-sampling, in evaluation mode before the assertion is reached.
C15_MissingMatchersElseSucceeds ==
    pc = "getitem_returned" =>
        /\ (~ds.train /\ ds.matchers[1] = "None") =>
              item = Fail("AssertionError")
        /\ ds.train => item.err = "none"

(***************************************************************************)
(* Properties of get_negative_edges_random.                                *)
(***************************************************************************)
SamplerReturned == pc = "sampler_returned" /\ neg_call.ret.err = "none"

SamplerExact ==
    ~RatioAbove(neg_call.all_edges.shape1, neg_call.num)

Complement == (0..neg_call.all_edges.id_max) \ Range(neg_call.filter)

Distinct(s) == \A i, j \in DOMAIN s : i # j => s[i] # s[j]

\* C3: whenever the exact (low-ratio) branch is taken, every returned
\* negative id is absent from the supplied positive set, for both values of
\* the randomization flag.
C3_ExactBranchDisjoint ==
    (SamplerReturned /\ SamplerExact)
        => Range(neg_call.ret.val) \cap Range(neg_call.filter) = {}

\* C4: the number of returned negatives never exceeds the requested count;
\* in the exact random branch it is min(requested, size of the complement)
\* and the returned ids are pairwise distinct.
C4_CountBounded ==
    SamplerReturned =>
        /\ Len(neg_call.ret.val) <= neg_call.num
        /\ (SamplerExact /\ neg_call.randomization) =>
              /\ Len(neg_call.ret.val)
                    = Min2(neg_call.num, Cardinality(Complement))
              /\ Distinct(neg_call.ret.val)

\* A call in the exact random branch where the complement holds more ids
\* than requested, so the result was cut to the requested count.
C4_Witness ==
    /\ SamplerReturned /\ SamplerExact /\ neg_call.randomization
    /\ neg_call.num < Cardinality(Complement)
    /\ Len(neg_call.ret.val) = neg_call.num

\* C5: requesting 0 negatives returns an empty set and raises no error.
C5_ZeroRequestReturnsEmpty ==
    (pc = "sampler_returned" /\ neg_call.num = 0)
        => neg_call.ret = Ok(<<>>)

(***************************************************************************)
(* Properties of remap_edges_to_start_from_zero.                           *)
(***************************************************************************)
RemapReturned == pc = "remap_returned"

IdsInBuckets ==
    /\ Range(remap_call.edges[1]) \subseteq Range(remap_call.buckets_1st_dim)
    /\ Range(remap_call.edges[2]) \subseteq Range(remap_call.buckets_2nd_dim)

\* The id stored at 0-based rank r of a bucket.
AtRank(bucket, r) == bucket[r + 1]

\* C6: for ascending duplicate-free buckets and edges whose ids all occur in
\* the corresponding bucket, every id is mapped to its 0-based rank in the
\* bucket, and indexing the buckets with the result recovers the edges.
C6_RemapRankRoundTrip ==
    (RemapReturned /\ IdsInBuckets) =>
        /\ remap_call.ret.err = "none"
        /\ \A i \in DOMAIN remap_call.edges[1] :
              /\ remap_call.ret.val[1][i] \in 0..(Len(remap_call.buckets_1st_dim) - 1)
              /\ AtRank(remap_call.buckets_1st_dim, remap_call.ret.val[1][i])
                    = remap_call.edges[1][i]
              /\ remap_call.ret.val[2][i] \in 0..(Len(remap_call.buckets_2nd_dim) - 1)
              /\ AtRank(remap_call.buckets_2nd_dim, remap_call.ret.val[2][i])
                    = remap_call.edges[2][i]

\* A returned call on two edges with different item ids, neither at rank 0.
C6_Witness ==
    /\ RemapReturned /\ IdsInBuckets
    /\ Len(remap_call.edges[2]) = 2
    /\ remap_call.edges[2][1] # remap_call.edges[2][2]
    /\ Len(remap_call.buckets_2nd_dim) = 3
    /\ remap_call.ret.val[2][2] > 0

\* C7: an edge id that is absent from its bucket makes the call fail; no
\* index is returned for it.
C7_MissingIdRaises ==
    (RemapReturned /\ ~IdsInBuckets) => remap_call.ret.err # "none"

(***************************************************************************)
(* Properties of the sparse helpers.                                       *)
(***************************************************************************)
AssignDone == pc = "assign_ready" /\ sp_call.err = "none"

\* C8: sparse_assign on a coalesced matrix and an in-bounds coordinate gives
\* a matrix of the same declared size that reads exactly val at (i, j),
\* stored there before or not, and reads as before everywhere else; after
\* any sequence of assigns the matrix reads, at each coordinate, as the last
\* value assigned to it.  The float32 sum prev + (val - prev) is not always
\* val: assigning 0.1 over a stored 1.0 leaves 0.10000002.
C8_AssignSetsExactly ==
    pc = "assign_ready" =>
        /\ Coords(sp_m) = DOMAIN sp_expect
        /\ to_dense(sp_m) = sp_expect
        /\ AssignDone => At(sp_m, sp_call.i, sp_call.j) = sp_call.val

CatReturned == pc = "cat_returned"

\* C9: with equal column counts sparse_cat(a, b) has size
\* (a.rows + b.rows, a.cols) and reads a's value at (r, c) for r < a.rows and
\* b's value at (r - a.rows, c) for r >= a.rows; with unequal column counts
\* the call fails and returns no matrix.
C9_CatStacksRows ==
    CatReturned =>
        IF sp_m.cols = sp_call.n.cols
        THEN /\ sp_call.ret.err = "none"
             /\ sp_call.ret.val.rows = sp_m.rows + sp_call.n.rows
             /\ sp_call.ret.val.cols = sp_m.cols
             /\ \A r \in 0..(sp_m.rows + sp_call.n.rows - 1),
                   c \in 0..(sp_m.cols - 1) :
                   At(sp_call.ret.val, r, c) =
                      IF r < sp_m.rows THEN At(sp_m, r, c)
                      ELSE At(sp_call.n, r - sp_m.rows, c)
        ELSE sp_call.ret = Raise("AssertionError")

\* A stack of two matrices that each hold a non-zero value.
C9_Witness ==
    /\ CatReturned
    /\ sp_call.ret.err = "none"
    /\ \E rc \in Coords(sp_m) : At(sp_m, rc[1], rc[2]) # 0
    /\ \E rc \in Coords(sp_call.n) :
          /\ At(sp_call.n, rc[1], rc[2]) # 0
          /\ At(sp_call.ret.val, rc[1] + sp_m.rows, rc[2])
                = At(sp_call.n, rc[1], rc[2])

FillReturned == pc = "fill_returned"

\* Whether the mask of the call selects the coordinate.
Selected(r, c) ==
    IF sp_call.dim = 0 THEN sp_call.mask[r + 1] ELSE sp_call.mask[c + 1]

\* C10: sparse_fill_on_mask returns a matrix of the same size in which every
\* stored coordinate selected by the mask holds exactly val, every stored
\* coordinate not selected keeps its value, and no coordinate without an
\* explicit entry gains one.  The float32 sum prev + (val - prev) is not
\* always val: filling 0.1 over a stored 1.0 leaves 0.10000002.
C10_FillOnMask ==
    FillReturned =>
        /\ sp_call.ret.err = "none"
        /\ sp_call.ret.val.rows = sp_m.rows
        /\ sp_call.ret.val.cols = sp_m.cols
        /\ \A rc \in Coords(sp_m) :
              IF Stored(sp_m, rc[1], rc[2])
              THEN /\ Stored(sp_call.ret.val, rc[1], rc[2])
                   /\ At(sp_call.ret.val, rc[1], rc[2]) =
                         IF Selected(rc[1], rc[2]) THEN sp_call.val
                         ELSE At(sp_m, rc[1], rc[2])
              ELSE ~Stored(sp_call.ret.val, rc[1], rc[2])

(***************************************************************************)
(* Specification of fetch_n_hop_neighbourhood alone, one loop pass per     *)
(* step.  The graphs are every pair of users with one to all of the items, *)
(* and the adjacency lists of the dataset specification.  A fan-out larger *)
(* than every list of the graph never cuts (an unbounded fan-out).  One    *)
(* more graph has a user whose list names the same item twice, and one     *)
(* has users whose ids are 2^24 and 2^24 + 1, the first integer that is    *)
(* not a float32.                                                          *)
(***************************************************************************)
ItemLists == {SortedSeq(S) : S \in (SUBSET (0..MaxId)) \ {{}}}

RepeatedItemLists == { (0 :> <<0>> @@ 1 :> <<0, 0>>) }

LargeIdLists ==
    { (0 :> <<0>> @@ (2 ^ 24) :> <<0>> @@ (2 ^ 24 + 1) :> <<0, 1>>) }

HopUsersLists ==
    [0..MaxUserId -> ItemLists] \cup UsersLists \cup RepeatedItemLists
        \cup LargeIdLists

NoCut(users) == NumEdges(users) + Cardinality(DOMAIN users)

FanOuts(users) == (1..MaxFanOut) \cup {NoCut(users)}

InitNHop ==
    /\ pc = "nhop_loop"
    /\ \E users \in HopUsersLists :
         \E user_id \in DOMAIN users, n \in 0..MaxHops,
            num_neighbors \in FanOuts(users) :
            hop = [n |-> n,
                   user_id |-> user_id,
                   users |-> users,
                   articles |-> ArticlesOf(users),
                   num_neighbors |-> num_neighbors,
                   st |-> NHopStart(user_id),
                   ret |-> NotCalled]
    /\ neg_call = NotCalled
    /\ remap_call = NotCalled
    /\ SparseIdle
    /\ DatasetIdle
    /\ LinkIdle

\* One pass of the body of "for i in range(0, n)".  A pass that raises ends
\* the call with its exception.
HopIterate ==
    /\ pc = "nhop_loop"
    /\ hop.st.i < hop.n
    /\ hop.st.running
    /\ \E nxt \in HopStep(hop.st, hop.users, hop.articles, hop.num_neighbors) :
          /\ hop' = [hop EXCEPT !.st = nxt,
                                !.ret = IF nxt.err # "none"
                                        THEN Raise(nxt.err) ELSE hop.ret]
          /\ pc' = IF nxt.err # "none" THEN "nhop_returned" ELSE pc
    /\ UNCHANGED <<samplerVars, remapVars, sparseVars, datasetVars, linkVars>>

\* The loop is over (range exhausted, or break): return accum_edges.
HopReturn ==
    /\ pc = "nhop_loop"
    /\ (hop.st.i >= hop.n \/ ~hop.st.running)
    /\ hop' = [hop EXCEPT !.ret = Ok(hop.st.accum_edges)]
    /\ pc' = "nhop_returned"
    /\ UNCHANGED <<samplerVars, remapVars, sparseVars, datasetVars, linkVars>>

NextNHop == HopIterate \/ HopReturn

SpecNHop == InitNHop /\ [][NextNHop]_vars

\* The call under the guarantee that it keeps running: it is one thread that
\* waits for nothing, so a step that can be taken is taken.  The graphs are
\* the adjacency lists of the dataset specification, the graph with the
\* repeated item, and every pair of users over two items.  The hop counts go
\* one beyond those of the dataset configurations, so that the loop can
\* break after a pass that appended edges.
HopCounts == 0..(MaxHops + 1)

LiveUsersLists ==
    UsersLists \cup RepeatedItemLists
        \cup [0..1 -> {<<0>>, <<1>>, <<0, 1>>}]

InitNHopLive ==
    /\ pc = "nhop_loop"
    /\ \E users \in LiveUsersLists :
         \E user_id \in DOMAIN users, n \in HopCounts,
            num_neighbors \in FanOuts(users) :
            hop = [n |-> n,
                   user_id |-> user_id,
                   users |-> users,
                   articles |-> ArticlesOf(users),
                   num_neighbors |-> num_neighbors,
                   st |-> NHopStart(user_id),
                   ret |-> NotCalled]
    /\ neg_call = NotCalled
    /\ remap_call = NotCalled
    /\ SparseIdle
    /\ DatasetIdle
    /\ LinkIdle

SpecNHopLive == InitNHopLive /\ [][NextNHop]_vars /\ WF_vars(NextNHop)

(***************************************************************************)
(* Properties of fetch_n_hop_neighbourhood.                                *)
(***************************************************************************)
NHopReturned == pc = "nhop_returned"

\* C11: the call returns no edge when n_hops = 0, and when n_hops = 1 with a
\* fan-out that never cuts, for every anchor and every graph.
C11_NoEdgesUpToOneHop ==
    (/\ NHopReturned
     /\ \/ hop.n = 0
        \/ hop.n = 1 /\ hop.num_neighbors = NoCut(hop.users))
        => hop.ret = Ok(EmptyEdges)

\* A one-hop call with unbounded fan-out whose hop 0 found another user to
\* explore, and that returned no edge.
C11_Witness ==
    /\ NHopReturned
    /\ hop.n = 1
    /\ hop.num_neighbors = NoCut(hop.users)
    /\ hop.st.i = 1
    /\ hop.st.users_queue # {}
    /\ hop.ret = Ok(EmptyEdges)

\* C12: at every point of the call no accumulated edge has the anchor as
\* its source, and every accumulated edge (u, i) is an edge of the graph:
\* i is in users[u].  The source row of an edge is the float32 nearest to
\* the user id: the edges of neighbour 2^24 + 1 of anchor 2^24 have the
\* anchor as their source.
C12_NoAnchorEdgesOnlyRealEdges ==
    (pc \in {"nhop_loop", "nhop_returned"}) =>
        \A k \in DOMAIN hop.st.accum_edges[1] :
            /\ Len(hop.st.accum_edges[1]) = Len(hop.st.accum_edges[2])
            /\ hop.st.accum_edges[1][k] # hop.user_id
            /\ hop.st.accum_edges[1][k] \in DOMAIN hop.users
            /\ hop.st.accum_edges[2][k]
                  \in Range(hop.users[hop.st.accum_edges[1][k]])

InHopLoop == pc = "nhop_loop"

\* A pass of the loop body is about to run.
PassStarts == InHopLoop /\ hop.st.i < hop.n /\ hop.st.running

DuplicateFree(users) ==
    \A u \in DOMAIN users :
        \A j, k \in DOMAIN users[u] : j # k => users[u][j] # users[u][k]

NoEdgeTwice(edges) ==
    \A j, k \in DOMAIN edges[1] :
        j # k => <<edges[1][j], edges[2][j]>> # <<edges[1][k], edges[2][k]>>

\* C21: at the start of every pass users_queue is disjoint from
\* users_explored; a pass puts its users_queue into users_explored and takes
\* nothing out of it, and leaves a users_queue disjoint from it, so that no
\* user is queued in two passes; and when no adjacency list names an item
\* twice, no (user, item) edge occurs twice in accum_edges.  The last part
\* fails for the users 2^24 and 2^24 + 1 queued in one pass: the edges of
\* both have the source 2^24.
C21_FrontierDisjointNoEdgeTwice ==
    [][PassStarts =>
          /\ hop.st.users_queue \cap hop.st.users_explored = {}
          /\ hop.st.users_explored \subseteq hop'.st.users_explored
          /\ hop.st.users_queue \subseteq hop'.st.users_explored
          /\ hop'.st.users_queue \cap hop'.st.users_explored = {}
          /\ DuplicateFree(hop.users) => NoEdgeTwice(hop'.st.accum_edges)]_vars

\* The number of edges a step adds to accum_edges.
Appended == Len(hop'.st.accum_edges[1]) - Len(hop.st.accum_edges[1])

\* The number of items in the lists of the queued users.
QueuedDegrees ==
    LET queue == SortedSeq(hop.st.users_queue)
    IN  SumSeq([k \in DOMAIN queue |-> Len(hop.users[queue[k]])])

\* C22 as stated: in every pass after pass 0, users_queue holds at most
\* num_neighbors users, the articles_queue the pass samples holds at most
\* num_neighbors items, and the pass appends at most num_neighbors edges to
\* accum_edges.
C22_PerHopWorkWithinFanOut ==
    [][(PassStarts /\ hop.st.i >= 1) =>
          /\ Cardinality(hop.st.users_queue) <= hop.num_neighbors
          /\ hop'.st.running =>
                 Len(hop'.st.articles_queue) <= hop.num_neighbors
          /\ Appended <= hop.num_neighbors]_vars

\* C22 as the code has it: in every pass after pass 0, users_queue holds at
\* most num_neighbors users and the sampled articles_queue holds at most
\* num_neighbors items, while the pass appends the whole list of every
\* queued user: as many edges as the queued users have items.
C22_PerHopWorkWithinFrontierLists ==
    [][(PassStarts /\ hop.st.i >= 1) =>
          /\ Cardinality(hop.st.users_queue) <= hop.num_neighbors
          /\ hop'.st.running =>
                 Len(hop'.st.articles_queue) <= hop.num_neighbors
          /\ Appended = QueuedDegrees]_vars

\* Pass 1 has run with a fan-out that cut the candidate items to
\* num_neighbors and appended more than num_neighbors edges.
C22_Witness ==
    /\ InHopLoop
    /\ hop.st.i = 2
    /\ Len(hop.st.articles_queue) = hop.num_neighbors
    /\ Len(hop.st.accum_edges[1]) > hop.num_neighbors
    /\ hop.num_neighbors < NoCut(hop.users)

\* C23: the call returns, after passes that each start below n and never
\* count beyond n; a pass that starts with an empty users_queue leaves the
\* loop without counting and without touching accum_edges, after it only the
\* return happens, and the return hands out accum_edges as the loop left it.
C23_TerminatesStopsOnEmptyFrontier ==
    /\ <>NHopReturned
    /\ [][InHopLoop =>
             /\ hop'.st.i <= hop.n
             /\ hop'.st # hop.st => hop.st.i < hop.n
             /\ (PassStarts /\ hop.st.users_queue = {}) =>
                    /\ pc' = "nhop_loop"
                    /\ ~hop'.st.running
                    /\ hop'.st.i = hop.st.i
                    /\ hop'.st.accum_edges = hop.st.accum_edges
             /\ ~hop.st.running => pc' = "nhop_returned"
             /\ pc' = "nhop_returned" =>
                    /\ hop'.st = hop.st
                    /\ hop'.ret = Ok(hop.st.accum_edges)]_vars

\* A call for three hops that appended edges on pass 1, found no new user,
\* left the loop on pass 2 and returned the edges of pass 1.
C23_Witness ==
    /\ NHopReturned
    /\ hop.n = 3
    /\ hop.st.i = 2
    /\ ~hop.st.running
    /\ hop.st.users_queue = {}
    /\ Len(hop.st.accum_edges[1]) >= 1
    /\ hop.ret = Ok(hop.st.accum_edges)

(***************************************************************************)
(* Specification of the LinkProp script (run_link_prop.py, lines 309-312): *)
(* load_data gives the module-level M, whose stored values are all 1;      *)
(* sample_user_items splits it; score_mapk fits the estimator on the data  *)
(* part, then batch by batch calls predict_k, takes the top k of the       *)
(* target part, and scores the rows gathered so far.  The exponents are 0, *)
(* and 1 where no degree can exceed 2, so that every weight and every      *)
(* score is a sum of products of 1, 1/2 and 1/4, which float32 holds.      *)
(***************************************************************************)
Exponents(rows, cols) == IF Max2(rows, cols) <= 2 THEN {0, 1} ELSE {0}

OnesMatrices(rows, cols, k) ==
    {MatrixOf(rows, cols, [rc \in S |-> 1]) :
        S \in {T \in SUBSET ((0..(rows - 1)) \X (0..(cols - 1))) :
                  Cardinality(T) <= k}}

BatchSizes == {1, DefaultBatchSize}

InitLinkProp ==
    /\ pc = "lp_loaded"
    /\ \E rows \in 1..MaxRows, cols \in 1..MaxCols, k \in 1..MaxK,
          batch_size \in BatchSizes :
         \E alpha \in Exponents(rows, cols), beta \in Exponents(rows, cols),
            gamma \in Exponents(rows, cols), delta \in Exponents(rows, cols),
            M \in OnesMatrices(rows, cols, MaxLinks) :
            lp = [M |-> M,
                  data |-> NotCalled,
                  target |-> NotCalled,
                  linkProp |-> [k |-> k, alpha |-> alpha, beta |-> beta,
                                gamma |-> gamma, delta |-> delta,
                                user_degrees |-> <<>>, item_degrees |-> <<>>,
                                M_alpha_beta |-> NotCalled,
                                M_gamma_delta |-> NotCalled],
                  batch_size |-> batch_size,
                  start |-> 0,
                  call |-> NotCalled,
                  user_topk |-> <<>>,
                  target_topk |-> <<>>,
                  scores |-> <<>>,
                  ret |-> NotCalled]
    /\ map_call = NotCalled
    /\ neg_call = NotCalled
    /\ remap_call = NotCalled
    /\ SparseIdle
    /\ DatasetIdle
    /\ NHopIdle

\* data, target = sample_user_items(M, 0.4)
SampleUserItems ==
    /\ pc = "lp_loaded"
    /\ \E sampled \in sample_user_items(lp.M) :
          lp' = [lp EXCEPT !.data = sampled.data, !.target = sampled.target]
    /\ pc' = "lp_sampled"
    /\ UNCHANGED <<map_call, samplerVars, remapVars, sparseVars, datasetVars,
                   nhopVars>>

\* score_mapk(data, target), lines 291-294: self.fit_for_score(X) and the
\* empty user_topk, target_topk and scores.
FitForScore ==
    /\ pc = "lp_sampled"
    /\ lp' = [lp EXCEPT !.linkProp = fit_for_score(lp.linkProp, lp.data),
                        !.user_topk = <<>>,
                        !.target_topk = <<>>,
                        !.scores = <<>>]
    /\ pc' = "lp_fitted"
    /\ UNCHANGED <<map_call, samplerVars, remapVars, sparseVars, datasetVars,
                   nhopVars>>

\* One pass of the loop of score_mapk (lines 295-302) for the next batch of
\* users: predict_k, the top k of the target rows, the two concatenations
\* and the score of the rows so far.  A step that raises ends the run.
PredictK ==
    /\ pc = "lp_fitted"
    /\ lp.start < lp.data.rows
    /\ LET end == Min2(lp.start + lp.batch_size, lp.data.rows)
       IN  \E ret \in predict_k(lp.linkProp, lp.M, lp.data, lp.start, end,
                                lp.linkProp.k) :
           \E tp \in (IF ret.err = "none"
                      THEN target_pred(lp.target, lp.start, end, lp.linkProp.k)
                      ELSE {NotCalled}) :
              LET call == [start |-> lp.start, end |-> end,
                           k |-> lp.linkProp.k,
                           scores |-> get_preds_for_users(
                                          lp.linkProp, lp.M, lp.start, end),
                           ret |-> ret,
                           target_pred |-> tp]
              IN  IF ret.err = "none" /\ tp.err = "none"
                  THEN \E score \in {mean_average_precision(
                                         cat_rows(lp.target_topk, tp.val),
                                         cat_rows(lp.user_topk, ret.val),
                                         lp.linkProp.k)} :
                          /\ lp' = [lp EXCEPT
                                      !.call = call,
                                      !.user_topk = cat_rows(@, ret.val),
                                      !.target_topk = cat_rows(@, tp.val),
                                      !.scores = IF score.err = "none"
                                                 THEN Append(@, score.val)
                                                 ELSE @,
                                      !.start = end]
                          /\ pc' = IF score.err = "none"
                                   THEN "lp_fitted" ELSE "lp_failed"
                  ELSE /\ lp' = [lp EXCEPT !.call = call]
                       /\ pc' = "lp_failed"
    /\ UNCHANGED <<map_call, samplerVars, remapVars, sparseVars, datasetVars,
                   nhopVars>>

\* Line 306, after the last batch: return np.array(scores).mean(), user_topk.
ScoreMapkReturn ==
    /\ pc = "lp_fitted"
    /\ lp.start >= lp.data.rows
    /\ lp' = [lp EXCEPT !.ret = Ok([score |-> scores_mean(lp.scores),
                                    preds |-> lp.user_topk])]
    /\ pc' = "lp_returned"
    /\ UNCHANGED <<map_call, samplerVars, remapVars, sparseVars, datasetVars,
                   nhopVars>>

NextLinkProp == SampleUserItems \/ FitForScore \/ PredictK \/ ScoreMapkReturn

SpecLinkProp == InitLinkProp /\ [][NextLinkProp]_vars

(***************************************************************************)
(* Properties of LinkPropMulti.predict_k.                                  *)
(***************************************************************************)
\* predict_k has returned an index matrix (the pass may have failed later).
Predicted ==
    /\ pc \in {"lp_fitted", "lp_failed", "lp_returned"}
    /\ lp.call # NotCalled
    /\ lp.call.ret.err = "none"

\* The items of the user that read 1 in the matrix passed to predict_k.
Observed(user) == {c \in 0..(lp.data.cols - 1) : At(lp.data, user, c) = 1}

\* C16: for every row of the requested range with at least k items that are
\* not observed in the passed matrix, none of the k returned item ids is an
\* observed item of that user.
C16_NoObservedInTopK ==
    Predicted =>
        \A r \in 0..(lp.call.end - lp.call.start - 1) :
            (lp.data.cols - Cardinality(Observed(lp.call.start + r))
                 >= lp.call.k)
                => Range(lp.call.ret.val[r]) \cap Observed(lp.call.start + r)
                      = {}

\* C17: the scores predict_k computes for the range are
\* M_alpha_beta[range] * transpose(M) * M_gamma_delta for the matrix M that
\* was passed to fit_for_score and predict_k, whatever other matrix the
\* program holds.
C17_ScoresFromPassedMatrix ==
    Predicted =>
        lp.call.scores =
            ScoresWith(lp.linkProp.M_alpha_beta, lp.data,
                       lp.linkProp.M_gamma_delta, lp.call.start, lp.call.end)

(***************************************************************************)
(* Specification of mean_average_precision alone.  As in score_mapk, the   *)
(* rows of y_true and y_pred are outputs of topk: item ids without         *)
(* repetition, k of them in a row of y_pred.  One row of any order, or two *)
(* rows whose y_true is ascending; and the scenario of the design.         *)
(***************************************************************************)
DistinctSeqs(S, n) == {q \in [1..n -> S] : \A i, j \in 1..n : i # j => q[i] # q[j]}

TruthRows(k) == UNION {DistinctSeqs(0..MaxId, n) : n \in 1..k}

AscendingTruthRows(k) ==
    {SortedSeq(S) : S \in {T \in SUBSET (0..MaxId) :
                              Cardinality(T) \in 1..k}}

PredRows(k) == DistinctSeqs(0..MaxId, k)

MapKs == 1..Min2(MaxK, MaxId + 1)

MapCall(y_true, y_pred, k) ==
    [y_true |-> y_true, y_pred |-> y_pred, k |-> k, ret |-> NotCalled]

InitMap ==
    /\ pc = "map_call"
    /\ \/ \E k \in MapKs : \E t \in TruthRows(k), p \in PredRows(k) :
             map_call = MapCall(<<t>>, <<p>>, k)
       \/ \E k \in MapKs :
             \E t1 \in AscendingTruthRows(k), t2 \in AscendingTruthRows(k),
                p1 \in PredRows(k), p2 \in PredRows(k) :
                map_call = MapCall(<<t1, t2>>, <<p1, p2>>, k)
       \/ map_call = MapCall(<< <<1, 2, 3>> >>, << <<1, 5, 2>> >>, 3)
    /\ lp = NotCalled
    /\ neg_call = NotCalled
    /\ remap_call = NotCalled
    /\ SparseIdle
    /\ DatasetIdle
    /\ NHopIdle

CallMap ==
    /\ pc = "map_call"
    /\ map_call' = [map_call EXCEPT !.ret =
                       mean_average_precision(map_call.y_true, map_call.y_pred,
                                              map_call.k)]
    /\ pc' = "map_returned"
    /\ UNCHANGED <<lp, samplerVars, remapVars, sparseVars, datasetVars,
                   nhopVars>>

NextMap == CallMap

SpecMap == InitMap /\ [][NextMap]_vars

(***************************************************************************)
(* Properties of mean_average_precision.                                   *)
(***************************************************************************)
MapReturned == pc = "map_returned"

\* Position p (0-based, p < k) of row r is relevant: y_pred[r][p] occurs
\* in y_true[r].
Relevant(r, p) ==
    /\ p < Len(map_call.y_pred[r])
    /\ map_call.y_pred[r][p + 1] \in Range(map_call.y_true[r])

\* The number of relevant positions of row r up to position p.
RelevantUpTo(r, p) == Cardinality({q \in 0..p : Relevant(r, q)})

\* The sum over the relevant positions p of row r of RelevantUpTo / (p + 1),
\* times the common multiple scale of the ranks.
RowPrecisionSum(r, scale) ==
    SumSeq([p \in 1..map_call.k |->
               IF Relevant(r, p - 1)
               THEN RelevantUpTo(r, p - 1) * (scale \div p)
               ELSE 0])

\* C18: position p < k of a row is marked relevant exactly when y_pred[p]
\* occurs in the row's y_true; the result is the mean over the rows of
\* (sum over relevant p of (relevant positions up to p) / (p + 1)) / k; and
\* for y_true = [[1,2,3]], y_pred = [[1,5,2]], k = 3 the relevance vector is
\* [1,0,1] and the result is (1 + 2/3) / 3 = 5/9.
C18_MeanAveragePrecision ==
    MapReturned =>
        LET n == Len(map_call.y_true)
            k == map_call.k
            scale == Factorial(k + 1)
        IN  /\ map_call.ret.err = "none"
            /\ \A r \in 1..n : \A p \in 0..(k - 1) :
                  map_call.ret.rel_at_k[r][p + 1] = 1 <=> Relevant(r, p)
            /\ \A r \in 1..n : \A p \in 0..(k - 1) :
                  map_call.ret.rel_at_k[r][p + 1] \in {0, 1}
            /\ map_call.ret.val.num * (scale * k * n)
                  = SumSeq([r \in 1..n |-> RowPrecisionSum(r, scale)])
                       * map_call.ret.val.den
            /\ (map_call.y_true = << <<1, 2, 3>> >>
                  /\ map_call.y_pred = << <<1, 5, 2>> >> /\ k = 3) =>
                  /\ map_call.ret.rel_at_k = << <<1, 0, 1>> >>
                  /\ map_call.ret.val.num * 9 = 5 * map_call.ret.val.den

\* The scenario of the design has been computed: relevance [1,0,1].
C18_Witness ==
    /\ MapReturned
    /\ map_call.y_true = << <<1, 2, 3>> >>
    /\ map_call.y_pred = << <<1, 5, 2>> >>
    /\ map_call.k = 3
    /\ map_call.ret.rel_at_k = << <<1, 0, 1>> >>

(***************************************************************************)
(* Specification of a dataset object that serves any number of             *)
(* __getitem__ calls, for any anchors in any order, as a data loader makes *)
(* them.  A call that raises leaves the object in use.  Lines 39-182       *)
(* assign no attribute of self and change no list of it in place.          *)
(***************************************************************************)
BuildConfigs ==
    {c \in Configs :
        /\ c.k = MaxK
        /\ c.negative_edges_ratio = MaxNegRatio
        /\ c.positive_edges_ratio.digits[1] = DigitBase \div 2}

BuildDatasets == {d \in Datasets : d.config \in BuildConfigs}

InitBuilds ==
    /\ pc = "getitem_call"
    /\ ds \in BuildDatasets
    /\ idx = 0
    /\ item = NotCalled
    /\ neg_call = NotCalled
    /\ remap_call = NotCalled
    /\ SparseIdle
    /\ NHopIdle
    /\ LinkIdle

Build ==
    /\ pc \in {"getitem_call", "getitem_returned"}
    /\ \E u \in DOMAIN ds.users :
         \E outcome \in getitem(ds, u) :
            /\ idx' = u
            /\ item' = outcome
            /\ ds' = ds
    /\ pc' = "getitem_returned"
    /\ UNCHANGED <<samplerVars, remapVars, sparseVars, nhopVars, linkVars>>

NextBuilds == Build

SpecBuilds == InitBuilds /\ [][NextBuilds]_vars

(***************************************************************************)
(* Properties of successive builds.                                        *)
(***************************************************************************)
\* C20: with randomization = False, a build that follows a build of the same
\* anchor over the same dataset returns the same example (structural edges,
\* scoring edges, labels, feature rows).
C20_DeterministicBuildsAgree ==
    [][(/\ Built
        /\ ~ds.randomization
        /\ idx' = idx
        /\ item'.err = "none")
          => item'.data = item.data]_vars

(***************************************************************************)
(* The buckets of an example against the ids that are remapped.            *)
(***************************************************************************)
\* The item ids the example touches: positives, negatives, n-hop context.
TouchedItems ==
    Range(item.loc.positive_article_indices)
        \cup Range(item.loc.sampled_negative_article_indices)
        \cup Range(item.loc.n_hop_edges[2])

\* The user ids and item ids handed to remap_edges_to_start_from_zero.
RemappedUsers == {idx} \cup Range(item.loc.n_hop_edges[1])

RemappedItems ==
    TouchedItems \cup Range(item.loc.sampled_positive_article_indices)

Below(s, n) == \A k \in DOMAIN s : 0 <= s[k] /\ s[k] < n

\* C24: in every example each id handed to the remapper is in its bucket;
\* the user indices of edge_index and edge_label_index and of their reversed
\* copies are below the number of emitted user rows, the item indices below
\* the number of emitted item rows; and the item bucket is the ascending,
\* duplicate-free union of the positive, negative and n-hop item ids.
C24_RemappedIdsInBuckets ==
    Built =>
        LET users_n == Len(item.data.user_x)
            items_n == Len(item.data.item_x)
        IN  /\ RemappedUsers \subseteq Range(item.loc.user_buckets)
            /\ RemappedItems \subseteq Range(item.loc.article_buckets)
            /\ users_n = Len(item.loc.user_buckets)
            /\ items_n = Len(item.loc.article_buckets)
            /\ Below(item.data.edge_index[1], users_n)
            /\ Below(item.data.edge_label_index[1], users_n)
            /\ Below(item.data.rev_edge_index[2], users_n)
            /\ Below(item.data.rev_edge_label_index[2], users_n)
            /\ Below(item.data.edge_index[2], items_n)
            /\ Below(item.data.edge_label_index[2], items_n)
            /\ Below(item.data.rev_edge_index[1], items_n)
            /\ Below(item.data.rev_edge_label_index[1], items_n)
            /\ item.loc.article_buckets = SortedSeq(TouchedItems)

\* An example with n-hop edges from a user whose local index is not 0, and
\* with a negative that is neither a positive nor an n-hop item and whose
\* local index is its rank in the item bucket.
C24_Witness ==
    /\ Built
    /\ Len(item.loc.n_hop_edges[1]) > 0
    /\ \E k \in DOMAIN item.data.edge_index[1] : item.data.edge_index[1][k] > 0
    /\ \E k \in DOMAIN item.loc.sampled_negative_article_indices :
          LET id == item.loc.sampled_negative_article_indices[k]
              at == Len(item.loc.sampled_positive_article_indices) + k
          IN  /\ id \notin Range(item.loc.positive_article_indices)
              /\ id \notin Range(item.loc.n_hop_edges[2])
              /\ item.loc.article_buckets[item.data.edge_label_index[2][at] + 1]
                    = id

====
